---------------------------- MODULE Spec2Model ----------------------------
(***************************************************************************)
(* A model of streamr_app.py: one run of main() for one value of the       *)
(* address text field.  main() validates the address, fetches the node     *)
(* profile, fetches three metrics endpoints on a thread pool, and renders  *)
(* the node information, the payouts and the claimed reward codes.         *)
(*                                                                         *)
(* JSON values are tagged records; Python's None and JSON null are the     *)
(* same value, as they are for response.json().  Strings that the code     *)
(* inspects character by character (the address) are sequences of          *)
(* one-character strings.  Payout values are rationals num/den.            *)
(*                                                                         *)
(* fetch_data catches requests.exceptions.RequestException.  The model     *)
(* takes the JSON decoding error of response.json() to be the              *)
(* requests.exceptions.JSONDecodeError of requests 2.27 and later, which   *)
(* is a RequestException.                                                  *)
(***************************************************************************)
EXTENDS Integers, Sequences, FiniteSets, TLC

VARIABLES
    pc,             \* position of main()
    node_address,   \* value returned by st.text_input
    node_data,      \* main's local node_data (the object display_* receive)
    fetched,        \* history: the value fetch_node_data returned
    exception,      \* the exception that ended main(), "none" otherwise
    requests,       \* how many times each URL was passed to requests.get
    node_response,  \* what the server answered to the node-profile GET
    future,         \* state of each future submitted to the executor
    response,       \* what the server answered to each future's GET
    future_result,  \* outcome of fetch_data in each future
    yielded,        \* futures as_completed has yielded so far
    results,        \* the dict built from as_completed in get_metrics_data
    metrics,        \* the value get_metrics_data returned
    st_error,       \* messages passed to st.error
    st_warning,     \* messages passed to st.warning
    node_info,      \* widgets rendered by display_node_info
    payout_lines,   \* lines rendered by the payout loop of display_payouts
    code_lines,     \* lines rendered by display_latest_codes
    tz_choice,      \* what the user picked in the timezone selectbox
    selected_tz     \* value returned by the timezone selectbox

vars == <<pc, node_address, node_data, fetched, exception, requests,
          node_response, future,
          response, future_result, yielded, results, metrics, st_error, st_warning,
          node_info, payout_lines, code_lines, tz_choice, selected_tz>>

-----------------------------------------------------------------------------
(* Bounds of the model *)

\* longest payout list a node-profile response carries
MaxPayouts == 2

-----------------------------------------------------------------------------
(* JSON values and the Python operations main() applies to them *)

JNull == [t |-> "null"]
JNum(n) == [t |-> "num", n |-> n]
JStr(s) == [t |-> "str", s |-> s]
JList(q) == [t |-> "list", q |-> q]
JObj(f) == [t |-> "obj", f |-> f]

None == JNull

\* outcome of evaluating a Python expression: a value or a raised exception
Value(v) == [exc |-> "none", val |-> v]
Raise(e) == [exc |-> e, val |-> None]

\* key in v, for a str key
PyIn(key, v) ==
    CASE v.t = "obj" -> Value(key \in DOMAIN v.f)
      [] v.t = "list" -> Value(\E i \in 1..Len(v.q) : v.q[i] = JStr(key))
      [] OTHER -> Raise("TypeError")

\* v[key], for a str key
PyGetItem(v, key) ==
    CASE v.t = "obj" ->
            IF key \in DOMAIN v.f THEN Value(v.f[key]) ELSE Raise("KeyError")
      [] OTHER -> Raise("TypeError")

\* v[k1][k2]...: the first failing subscript raises
RECURSIVE PyPath(_, _)
PyPath(v, keys) ==
    IF keys = <<>> THEN Value(v)
    ELSE LET r == PyGetItem(v, Head(keys))
         IN  IF r.exc # "none" THEN r ELSE PyPath(r.val, Tail(keys))

EmptyDict == [k \in {} |-> None]

\* d[key] = value on a dict
DictSet(d, key, value) ==
    [k \in DOMAIN d \cup {key} |-> IF k = key THEN value ELSE d[k]]

-----------------------------------------------------------------------------
(* The address and its validation *)

HexLen == 40
MaxChars == 42

Digits == {"0", "1", "2", "3", "4", "5", "6", "7", "8", "9"}
HexChars == Digits \cup {"a", "b", "c", "d", "e", "f"}
                   \cup {"A", "B", "C", "D", "E", "F"}

RECURSIVE Rep(_, _)
Rep(s, n) == IF n = 0 THEN <<>> ELSE s \o Rep(s, n - 1)

\* the placeholder address of the text field
ExampleAddress ==
    <<"0", "x">> \o
    <<"4", "a", "2", "A", "3", "5", "0", "1", "e", "5",
      "0", "7", "5", "9", "2", "5", "0", "8", "2", "8",
      "A", "C", "d", "8", "5", "E", "7", "4", "5", "0",
      "f", "b", "5", "5", "A", "1", "0", "a", "6", "9">>

\* the pattern without its "0x" prefix: 42 characters, hexadecimal from the third
ReMatch_NoPrefix(s) ==
    /\ Len(s) = HexLen + 2
    /\ \A i \in 3..(HexLen + 2) : s[i] \in HexChars

\* re.match("^0x[a-fA-F0-9]{40}$", s): "$" also matches before one final newline
ReMatch(s) ==
    LET n == HexLen + 2
        body == /\ Len(s) >= n
                /\ s[1] = "0"
                /\ s[2] = "x"
                /\ \A i \in 3..n : s[i] \in HexChars
    IN  /\ body
        /\ \/ Len(s) = n
           \/ Len(s) = n + 1 /\ s[n + 1] = "\n"

\* strings a user may type or paste
TypedStrings ==
    { <<>>,                                             \* nothing entered
      ExampleAddress,                                   \* well formed
      ExampleAddress \o <<"\n">>,                       \* 43 characters
      SubSeq(ExampleAddress, 1, HexLen + 1),            \* one digit short
      <<"0", "x">> \o Rep(<<"g">>, HexLen),             \* not hexadecimal
      <<"0", "X">> \o SubSeq(ExampleAddress, 3, HexLen + 2), \* wrong prefix
      Rep(<<"a">>, HexLen + 2),                         \* no prefix
      <<"0", "x">> }                                    \* prefix only

\* values st.text_input(..., max_chars=42) can return
Addresses == {s \in TypedStrings : Len(s) <= MaxChars}

-----------------------------------------------------------------------------
(* Time: datetime, pytz and strftime *)

\* proleptic Gregorian date of a day number counted from 1970-01-01
CivilFromDays(z) ==
    LET zz == z + 719468
        era == zz \div 146097
        doe == zz - era * 146097
        yoe == (doe - doe \div 1460 + doe \div 36524 - doe \div 146096) \div 365
        doy == doe - (365 * yoe + yoe \div 4 - yoe \div 100)
        mp == (5 * doy + 2) \div 153
        m == IF mp < 10 THEN mp + 3 ELSE mp - 9
    IN  [Y |-> yoe + era * 400 + (IF m <= 2 THEN 1 ELSE 0),
         M |-> m,
         D |-> doy - (153 * mp + 2) \div 5 + 1]

\* day number of a proleptic Gregorian date
DaysFromCivil(y, m, d) ==
    LET yy == IF m <= 2 THEN y - 1 ELSE y
        era == yy \div 400
        yoe == yy - era * 400
        mp == IF m > 2 THEN m - 3 ELSE m + 9
        doy == (153 * mp + 2) \div 5 + d - 1
        doe == yoe * 365 + yoe \div 4 - yoe \div 100 + doy
    IN  era * 146097 + doe - 719468

\* a datetime's fields, from seconds since the epoch on that datetime's clock
DateTime(secs) ==
    LET days == secs \div 86400
        rem == secs % 86400
        c == CivilFromDays(days)
    IN  [Y |-> c.Y, M |-> c.M, D |-> c.D,
         h |-> rem \div 3600, m |-> (rem % 3600) \div 60, s |-> rem % 60]

\* seconds since the epoch of a datetime's fields, on that datetime's clock
Seconds(dt) ==
    DaysFromCivil(dt.Y, dt.M, dt.D) * 86400 + dt.h * 3600 + dt.m * 60 + dt.s

\* datetime.utcfromtimestamp(int(ts))
UtcFromTimestamp(ts) == DateTime(ts)

\* pytz.all_timezones, cut down to three zones
AllTimezones == {"UTC", "US/Eastern", "Asia/Tokyo"}

\* pytz.timezone(tz) at the UTC instant ts: offset in seconds and abbreviation
\* (US/Eastern's daylight saving time as in 2023)
TzInfo(tz, ts) ==
    CASE tz = "UTC" -> [offset |-> 0, name |-> "UTC"]
      [] tz = "Asia/Tokyo" -> [offset |-> 9 * 3600, name |-> "JST"]
      [] tz = "US/Eastern" ->
            IF ts >= 1678604400 /\ ts < 1699164000
            THEN [offset |-> -4 * 3600, name |-> "EDT"]
            ELSE [offset |-> -5 * 3600, name |-> "EST"]

\* utc.localize(dt).astimezone(pytz.timezone(tz)): local fields and zone name
AsTimezone(dt, tz) ==
    LET ts == Seconds(dt)
        info == TzInfo(tz, ts)
    IN  [dt |-> DateTime(ts + info.offset), Z |-> info.name]

DayNames == <<"Sun", "Mon", "Tue", "Wed", "Thu", "Fri", "Sat">>
MonthNames == <<"Jan", "Feb", "Mar", "Apr", "May", "Jun",
                "Jul", "Aug", "Sep", "Oct", "Nov", "Dec">>

\* convert_dt_to_user_tz: strftime("%a, %d %b %Y %H:%M:%S %Z") in zone user_tz
ConvertDtToUserTz(dt, user_tz) ==
    LET loc == AsTimezone(dt, user_tz)
        wd == (DaysFromCivil(loc.dt.Y, loc.dt.M, loc.dt.D) + 4) % 7
    IN  [a |-> DayNames[wd + 1], d |-> loc.dt.D, b |-> MonthNames[loc.dt.M],
         Y |-> loc.dt.Y, H |-> loc.dt.h, M |-> loc.dt.m, S |-> loc.dt.s,
         Z |-> loc.Z]

\* convert_time_to_user_tz: strptime of the ISO-8601 text (held as its
\* fields), then strftime("%I:%M:%S %p") in zone user_tz
ConvertTimeToUserTz(time_str, user_tz) ==
    LET loc == AsTimezone(time_str, user_tz)
    IN  [I |-> ((loc.dt.h + 11) % 12) + 1, M |-> loc.dt.m, S |-> loc.dt.s,
         p |-> IF loc.dt.h < 12 THEN "AM" ELSE "PM"]

\* int(float(value)): truncation instead of the ceiling
Ceil_Truncated(value) == value.num \div value.den

\* math.ceil(float(value)) of a rational value
Ceil(value) == -((-value.num) \div value.den)

-----------------------------------------------------------------------------
(* The HTTP endpoints and what they answer *)

NodeUrl(address) == [base |-> "API_BASE/nodes", path |-> address]

\* the dict data of get_metrics_data, as its items() in insertion order
DataItems(address) ==
    << [key |-> "acc_rewards",
        url |-> [base |-> "DATA_REWARDS_BASE", path |-> address]],
       [key |-> "claimed_rewards",
        url |-> [base |-> "CLAIMED_REWARDS_BASE", path |-> address]],
       [key |-> "apr_apy",
        url |-> [base |-> "APR_APY_BASE", path |-> <<>>]] >>

\* the futures of get_metrics_data, numbered in the order of submission
Futures == DOMAIN DataItems(<<>>)

MetricKeys == {DataItems(<<>>)[i].key : i \in Futures}

\* the outcome of a GET: the connection failed, or a response arrived with a
\* status and a body that is JSON text (json = TRUE, body its value) or is not
NoResponse == [net |-> "pending", status |-> 0, json |-> FALSE, body |-> JNull]
ConnectionFailed == [net |-> "failed", status |-> 0, json |-> FALSE, body |-> JNull]
NotFound == [net |-> "answered", status |-> 404, json |-> FALSE, body |-> JNull]
NotJson == [net |-> "answered", status |-> 200, json |-> FALSE, body |-> JNull]
Ok(body) == [net |-> "answered", status |-> 200, json |-> TRUE, body |-> body]

\* payouts a node-profile response may list: timestamp and value
PayoutPool ==
    { [timestamp |-> 1672574400, value |-> [num |-> 206, den |-> 5]],
      [timestamp |-> 1672617600, value |-> [num |-> 41, den |-> 1]],
      [timestamp |-> 1688212800, value |-> [num |-> 1, den |-> 100]] }

\* payout lists: each payout is an event of its own and is listed once
PayoutLists ==
    {q \in UNION {[1..n -> PayoutPool] : n \in 0..MaxPayouts} :
        \A i, j \in DOMAIN q : q[i] = q[j] => i = j}

ClaimedRewardCodes ==
    << [id |-> "code-1",
        claimTime |-> [Y |-> 2023, M |-> 1, D |-> 1, h |-> 12, m |-> 0, s |-> 0]] >>

\* the fields display_node_info reads
InfoFields ==
    [identiconURL |-> JStr("https://identicon"), status |-> JNum(1),
     staked |-> JNum(1000), toBeReceived |-> JNum(5), rewards |-> JNum(300),
     claimCount |-> JNum(12), claimPercentage |-> JNum(99)]

NodeWith(node) == JObj([data |-> JObj([node |-> node])])

\* a complete node record with the given payouts
FullNode(payouts) ==
    NodeWith(JObj([identiconURL |-> InfoFields.identiconURL,
                   status |-> InfoFields.status,
                   staked |-> InfoFields.staked,
                   toBeReceived |-> InfoFields.toBeReceived,
                   rewards |-> InfoFields.rewards,
                   claimCount |-> InfoFields.claimCount,
                   claimPercentage |-> InfoFields.claimPercentage,
                   payouts |-> JList(payouts),
                   claimedRewardCodes |-> JList(ClaimedRewardCodes)]))

FullNodes == {FullNode(p) : p \in PayoutLists}

\* JSON bodies that are not a complete node record
OtherBodies ==
    { JNull,                                          \* null
      JNum(0),                                        \* 0
      JObj([error |-> JStr("not found")]),            \* {"error": ...}
      JObj([data |-> JNull]),                         \* {"data": null}
      JObj([data |-> JObj([error |-> JStr("not found")])]),
      JObj([data |-> JList(<<JStr("node")>>)]),       \* {"data": ["node"]}
      NodeWith(JNull),                                \* {"data": {"node": null}}
      NodeWith(JObj([status |-> InfoFields.status])), \* only a status
      NodeWith(JObj(InfoFields)) }                    \* no payouts, no codes

NodeResponses ==
    {ConnectionFailed, NotFound, NotJson} \cup {Ok(b) : b \in FullNodes \cup OtherBodies}

\* the payload an endpoint serves for a URL
Payload(url) == JObj([served_for |-> JStr(url.base)])

MetricResponses(url) ==
    {ConnectionFailed, NotFound, NotJson, Ok(JNull), Ok(Payload(url))}

-----------------------------------------------------------------------------
(* fetch_data *)

\* the subclasses of requests.exceptions.RequestException raised here
RequestExceptions == {"ConnectionError", "HTTPError", "JSONDecodeError"}

\* requests.get(url) is called once more
Get(log, url) ==
    DictSet(log, url, IF url \in DOMAIN log THEN log[url] + 1 ELSE 1)

\* the try block: requests.get, raise_for_status, response.json()
TryFetch(resp) ==
    IF resp.net # "answered" THEN Raise("ConnectionError")
    ELSE IF resp.status >= 400 THEN Raise("HTTPError")
    ELSE IF ~resp.json THEN Raise("JSONDecodeError")
    ELSE Value(resp.body)

\* fetch_data without its except clause
FetchData_NoExcept(resp) == TryFetch(resp)

\* fetch_data: the JSON value, or None when a RequestException was caught
FetchData(resp) ==
    LET r == TryFetch(resp)
    IN  IF r.exc \in RequestExceptions THEN Value(None) ELSE r

-----------------------------------------------------------------------------
(* main, up to the node lookup *)

EnterAddressMsg == "Please enter a Streamr node Ethereum address to fetch data..."
InvalidAddressMsg == "Invalid Ethereum address. It should be 42 characters long (including '0x') and hexadecimal."
FailedFetchMsg == "Failed to fetch data for the given Ethereum address. Please make sure it is a valid Streamr node address."

\* the selectbox has not been touched (or not been rendered)
NoChoice == ""

Init ==
    /\ pc = "start"
    /\ node_address = <<>>
    /\ node_data = None
    /\ fetched = None
    /\ exception = "none"
    /\ requests = EmptyDict
    /\ node_response = NoResponse
    /\ future = [i \in Futures |-> "unsubmitted"]
    /\ response = [i \in Futures |-> NoResponse]
    /\ future_result = [i \in Futures |-> Value(None)]
    /\ yielded = {}
    /\ results = EmptyDict
    /\ metrics = EmptyDict
    /\ st_error = <<>>
    /\ st_warning = <<>>
    /\ node_info = <<>>
    /\ payout_lines = <<>>
    /\ code_lines = <<>>
    /\ tz_choice = NoChoice
    /\ selected_tz = NoChoice

\* the test without its last conjunct
NodeCheck_DataOnly(nd) ==
    IF nd = None THEN Value(FALSE) ELSE PyIn("data", nd)

\* node_data is not None and 'data' in node_data and 'node' in node_data['data']
NodeCheck(nd) ==
    IF nd = None THEN Value(FALSE)
    ELSE LET a == PyIn("data", nd)
         IN  IF a.exc # "none" THEN a
             ELSE IF ~a.val THEN a
             ELSE PyIn("node", PyGetItem(nd, "data").val)

\* main from the text field to the node-profile GET (lines 288-296, 306-315)
Main_Start ==
    /\ pc = "start"
    /\ \E a \in Addresses :
        /\ node_address' = a
        /\ IF a = <<>>
           THEN /\ st_warning' = Append(st_warning, EnterAddressMsg)
                /\ pc' = "done"
                /\ UNCHANGED <<st_error, requests>>
           ELSE IF ReMatch(a)
           THEN /\ requests' = Get(requests, NodeUrl(a))
                /\ pc' = "fetch_node"
                /\ UNCHANGED <<st_error, st_warning>>
           ELSE /\ st_error' = Append(st_error, InvalidAddressMsg)
                /\ pc' = "done"
                /\ UNCHANGED <<st_warning, requests>>
    /\ UNCHANGED <<node_data, fetched, exception, node_response, future,
                   response, future_result, yielded, results, metrics,
                   node_info, payout_lines, code_lines, tz_choice, selected_tz>>

\* fetch_node_data returns; main tests the body and either reports the failure
\* or enters get_metrics_data, which submits the three fetches (lines 296-305,
\* 77-86)
Main_NodeFetched ==
    /\ pc = "fetch_node"
    /\ \E resp \in NodeResponses :
        LET r == FetchData(resp)
            c == NodeCheck(r.val)
        IN  /\ node_response' = resp
            /\ IF r.exc # "none"
               THEN /\ pc' = "raised"
                    /\ exception' = r.exc
                    /\ UNCHANGED <<node_data, fetched, future, st_error>>
               ELSE /\ node_data' = r.val
                    /\ fetched' = r.val
                    /\ IF c.exc # "none"
                       THEN /\ pc' = "raised"
                            /\ exception' = c.exc
                            /\ UNCHANGED <<future, st_error>>
                       ELSE IF c.val
                       THEN /\ future' = [i \in Futures |-> "pending"]
                            /\ pc' = "as_completed"
                            /\ UNCHANGED <<exception, st_error>>
                       ELSE /\ st_error' = Append(st_error, FailedFetchMsg)
                            /\ pc' = "done"
                            /\ UNCHANGED <<exception, future>>
    /\ UNCHANGED <<node_address, requests, response, future_result, yielded,
                   results, metrics, st_warning, node_info, payout_lines,
                   code_lines, tz_choice, selected_tz>>

-----------------------------------------------------------------------------
(* get_metrics_data: the pool's workers and the as_completed loop *)

\* every future mapped to the key of the last item
FutureToUrl_LastKey(i) ==
    DataItems(node_address)[Len(DataItems(node_address))].key

\* future_to_url[future]: the key the future was submitted for
FutureToUrl(i) == DataItems(node_address)[i].key

\* a worker starts fetch_data(url) and issues its GET (line 45)
Worker_Get(i) ==
    /\ future[i] = "pending"
    /\ future' = [future EXCEPT ![i] = "running"]
    /\ requests' = Get(requests, DataItems(node_address)[i].url)
    /\ UNCHANGED <<pc, node_address, node_data, fetched, exception,
                   node_response, response, future_result, yielded, results,
                   metrics, st_error, st_warning, node_info, payout_lines,
                   code_lines, tz_choice, selected_tz>>

\* the GET ends and fetch_data returns in the worker (lines 45-50)
Worker_Return(i) ==
    /\ future[i] = "running"
    /\ \E resp \in MetricResponses(DataItems(node_address)[i].url) :
        /\ response' = [response EXCEPT ![i] = resp]
        /\ future_result' = [future_result EXCEPT ![i] = FetchData(resp)]
    /\ future' = [future EXCEPT ![i] = "finished"]
    /\ UNCHANGED <<pc, node_address, node_data, fetched, exception, requests,
                   node_response, yielded, results, metrics, st_error,
                   st_warning, node_info, payout_lines, code_lines,
                   tz_choice, selected_tz>>

\* one step of the comprehension over as_completed: a finished future is
\* yielded and future.result() is stored under its key (lines 87-88)
AsCompleted(i) ==
    /\ pc = "as_completed"
    /\ exception = "none"
    /\ future[i] = "finished"
    /\ i \notin yielded
    /\ yielded' = yielded \cup {i}
    /\ IF future_result[i].exc # "none"
       THEN /\ exception' = future_result[i].exc
            /\ UNCHANGED results
       ELSE /\ results' = DictSet(results, FutureToUrl(i), future_result[i].val)
            /\ UNCHANGED exception
    /\ UNCHANGED <<pc, node_address, node_data, fetched, requests,
                   node_response, future, response, future_result, metrics,
                   st_error, st_warning, node_info, payout_lines, code_lines,
                   tz_choice, selected_tz>>

\* the fetches submitted and not waited for
ExecutorJoined_NoWait == TRUE

\* the with block can be left: as_completed is exhausted (or result() raised)
\* and the executor's shutdown(wait=True) has joined every worker
ExecutorJoined ==
    /\ exception # "none" \/ yielded = Futures
    /\ \A i \in Futures : future[i] = "finished"

\* {k: v for k, v in results.items() if v is not None}
ExcludeFailed(d) == [k \in {x \in DOMAIN d : d[x] # None} |-> d[k]]

\* get_metrics_data leaves the with block and returns (lines 84-91)
GetMetricsReturn ==
    /\ pc = "as_completed"
    /\ ExecutorJoined
    /\ IF exception # "none"
       THEN /\ pc' = "raised"
            /\ UNCHANGED metrics
       ELSE /\ metrics' = ExcludeFailed(results)
            /\ pc' = "display_node_info"
    /\ UNCHANGED <<node_address, node_data, fetched, exception, requests,
                   node_response, future, response, future_result, yielded,
                   results, st_error, st_warning, node_info, payout_lines,
                   code_lines, tz_choice, selected_tz>>

-----------------------------------------------------------------------------
(* display_node_info *)

\* the widgets of display_node_info in the order they are rendered, each with
\* the field of node_data['data']['node'] its argument reads
InfoWidgets ==
    << [label |-> "Node Identicon", field |-> "identiconURL"],
       [label |-> "Node Address", field |-> ""],
       [label |-> "Status", field |-> "status"],
       [label |-> "Staked $DATA", field |-> "staked"],
       [label |-> "To be Received", field |-> "toBeReceived"],
       [label |-> "Total rewards", field |-> "rewards"],
       [label |-> "Claim Count", field |-> "claimCount"],
       [label |-> "Percentage of received claims %", field |-> "claimPercentage"] >>

\* the argument of the i-th widget
InfoArg(nd, i) ==
    IF InfoWidgets[i].field = "" THEN Value(None)
    ELSE PyPath(nd, <<"data", "node", InfoWidgets[i].field>>)

\* the widgets from the i-th on: those rendered before the first argument
\* that raises, and what it raised
RECURSIVE RenderNodeInfo(_, _, _)
RenderNodeInfo(nd, i, shown) ==
    IF i > Len(InfoWidgets) THEN [shown |-> shown, exc |-> "none"]
    ELSE IF InfoArg(nd, i).exc # "none"
    THEN [shown |-> shown, exc |-> InfoArg(nd, i).exc]
    ELSE RenderNodeInfo(nd, i + 1, Append(shown, InfoWidgets[i].label))

\* display_node_info(node_address, node_data) (lines 118-131)
DisplayNodeInfo ==
    /\ pc = "display_node_info"
    /\ LET r == RenderNodeInfo(node_data, 1, <<>>)
       IN  /\ node_info' = r.shown
           /\ exception' = r.exc
           /\ pc' = IF r.exc = "none" THEN "display_payouts" ELSE "raised"
    /\ UNCHANGED <<node_address, node_data, fetched, requests, node_response,
                   future, response, future_result, yielded, results, metrics,
                   st_error, st_warning, payout_lines, code_lines, tz_choice,
                   selected_tz>>

-----------------------------------------------------------------------------
(* display_payouts and display_latest_codes *)

\* the list left in the received order
Reverse_Omitted(q) == q

\* list.reverse()
Reverse(q) == [i \in 1..Len(q) |-> q[Len(q) + 1 - i]]

\* node_data after payouts.reverse(): payouts is the list held by node_data,
\* not a copy of it
ReverseInPlace(nd) ==
    LET data == nd.f.data
        node == data.f.node
    IN  JObj([nd.f EXCEPT !.data =
            JObj([data.f EXCEPT !.node =
                JObj([node.f EXCEPT !.payouts = JList(Reverse(@.q))])])])

\* one line of the payout loop (lines 266-273)
PayoutLine(payout) ==
    [formatted_time |-> ConvertDtToUserTz(UtcFromTimestamp(payout.timestamp), "UTC"),
     rounded_payout |-> Ceil(payout.value)]

\* PayoutLine on the payouts of the model, evaluated once
PayoutLines == [payout \in PayoutPool |-> PayoutLine(payout)]

\* col.selectbox(..., all_timezones, index=all_timezones.index('US/Eastern'))
Selectbox(choice) == IF choice = NoChoice THEN "US/Eastern" ELSE choice

\* one line of display_latest_codes (lines 205-207)
CodeLine(code, tz) ==
    [id |-> code.id, formatted_time |-> ConvertTimeToUserTz(code.claimTime, tz)]

\* the lines of display_latest_codes for each zone of the selector, evaluated once
CodeLines ==
    [tz \in AllTimezones |->
        [i \in DOMAIN ClaimedRewardCodes |-> CodeLine(ClaimedRewardCodes[i], tz)]]

\* display_payouts(node_data), with display_latest_codes (lines 253-278, 200-207)
DisplayPayouts ==
    /\ pc = "display_payouts"
    /\ \E choice \in AllTimezones \cup {NoChoice} :
        LET p == PyPath(node_data, <<"data", "node", "payouts">>)
            nd == ReverseInPlace(node_data)
            payouts == PyPath(nd, <<"data", "node", "payouts">>).val.q
            codes == PyPath(nd, <<"data", "node", "claimedRewardCodes">>)
        IN  IF p.exc # "none" \/ p.val.t # "list"
            THEN /\ exception' = IF p.exc # "none" THEN p.exc ELSE "AttributeError"
                 /\ pc' = "raised"
                 /\ UNCHANGED <<node_data, payout_lines, code_lines, tz_choice,
                                selected_tz>>
            ELSE /\ node_data' = nd
                 /\ payout_lines' = [i \in 1..Len(payouts) |-> PayoutLines[payouts[i]]]
                 /\ tz_choice' = choice
                 /\ selected_tz' = Selectbox(choice)
                 /\ IF codes.exc # "none" \/ codes.val.t # "list"
                    THEN /\ exception' = IF codes.exc # "none" THEN codes.exc
                                         ELSE "TypeError"
                         /\ pc' = "raised"
                         /\ UNCHANGED code_lines
                    ELSE /\ code_lines' = CodeLines[Selectbox(choice)]
                         /\ pc' = "done"
                         /\ UNCHANGED exception
    /\ UNCHANGED <<node_address, fetched, requests, node_response, future,
                   response, future_result, yielded, results, metrics,
                   st_error, st_warning, node_info>>

-----------------------------------------------------------------------------
(* The specification *)

Next ==
    \/ Main_Start
    \/ Main_NodeFetched
    \/ \E i \in Futures : Worker_Get(i)
    \/ \E i \in Futures : Worker_Return(i)
    \/ \E i \in Futures : AsCompleted(i)
    \/ GetMetricsReturn
    \/ DisplayNodeInfo
    \/ DisplayPayouts

Spec == Init /\ [][Next]_vars

\* every request is answered or fails, the pool runs its workers, and main
\* is not suspended for ever
FairSpec == Spec /\ WF_vars(Next)

-----------------------------------------------------------------------------
(* Properties *)

Finished == pc \in {"done", "raised"}

\* the pattern ^0x[0-9a-fA-F]{40}$ read as a description of the whole string
WellFormed(s) ==
    /\ Len(s) = HexLen + 2
    /\ SubSeq(s, 1, 2) = <<"0", "x">>
    /\ \A i \in 3..Len(s) : s[i] \in HexChars

\* get_metrics_data has returned to main
MetricsReturned == yielded = Futures /\ pc # "as_completed"

\* display_payouts has run to its end
Displayed == pc = "done" /\ MetricsReturned

\* the endpoint of future i answered with HTTP success and JSON text
Succeeded(i) ==
    response[i].net = "answered" /\ response[i].status = 200 /\ response[i].json

KeyOf(i) == DataItems(node_address)[i].key

\* the payouts in the order the node-profile response listed them
Received == fetched.f.data.f.node.f.payouts.q

AllInfoShown == node_info = [i \in 1..Len(InfoWidgets) |-> InfoWidgets[i].label]

MetricUrls == {DataItems(node_address)[i].url : i \in Futures}

MetricRequested == DOMAIN requests \cap MetricUrls # {}

NoRepeatedRequest == \A url \in DOMAIN requests : requests[url] <= 1

\* the number of GETs issued
RECURSIVE Total(_, _)
Total(log, urls) ==
    IF urls = {} THEN 0
    ELSE LET u == CHOOSE x \in urls : TRUE
         IN  log[u] + Total(log, urls \ {u})

Issued == Total(requests, DOMAIN requests)

\* C1 as stated: after main has read an address that does not match the
\* pattern (the empty string included), the validation error is shown and no
\* request has been issued.
C1_AnyInvalidInputShowsValidationError ==
    (pc # "start" /\ ~WellFormed(node_address)) =>
        /\ st_error = <<InvalidAddressMsg>>
        /\ Issued = 0

\* C1, amended: an address that does not match the pattern never causes a
\* request and ends the run at once; a non-empty one shows the validation
\* error and no warning, the empty one shows the "please enter" warning and no
\* error.
C1_InvalidInputNoRequest ==
    (pc # "start" /\ ~WellFormed(node_address)) =>
        /\ Issued = 0
        /\ pc = "done"
        /\ node_address # <<>> =>
                st_error = <<InvalidAddressMsg>> /\ st_warning = <<>>
        /\ node_address = <<>> =>
                st_warning = <<EnterAddressMsg>> /\ st_error = <<>>

C1_Witness ==
    /\ pc = "done"
    /\ Len(node_address) = HexLen + 2
    /\ ~WellFormed(node_address)
    /\ st_error = <<InvalidAddressMsg>>
    /\ Issued = 0

HasExpectedKeys(body) ==
    \A k \in DOMAIN InfoFields \cup {"payouts", "claimedRewardCodes"} :
        PyPath(body, <<"data", "node", k>>).exc = "none"

\* the node lookup failed: network error, non-2xx status, a body that is not
\* JSON, or a JSON body without the expected keys
LookupFailed ==
    /\ node_response # NoResponse
    /\ \/ node_response.net = "failed"
       \/ node_response.status # 200
       \/ ~node_response.json
       \/ ~HasExpectedKeys(node_response.body)

\* C3 as stated: when the node lookup fails in any of these ways, main shows
\* the "failed to fetch" error, renders neither node information nor payouts
\* and raises nothing.
C3_FailedLookupShowsError ==
    LookupFailed =>
        /\ pc = "done"
        /\ exception = "none"
        /\ st_error = <<FailedFetchMsg>>
        /\ node_info = <<>>
        /\ payout_lines = <<>>

\* C4: once a complete node record has been fetched, the run ends with the
\* node information, the payouts and the codes rendered, no error shown and
\* no exception, whichever of the metrics endpoints fail.
C4_MetricsFailuresNeverBlockDisplay ==
    (fetched \in FullNodes) ~>
        /\ pc = "done"
        /\ exception = "none"
        /\ st_error = <<>>
        /\ AllInfoShown
        /\ Len(payout_lines) = Len(Received)
        /\ Len(code_lines) = Len(ClaimedRewardCodes)

C4_Witness ==
    /\ pc = "done"
    /\ fetched \in FullNodes
    /\ response[1] = ConnectionFailed
    /\ response[2] = NotFound
    /\ response[3] = NotJson
    /\ metrics = EmptyDict
    /\ AllInfoShown
    /\ Len(payout_lines) = MaxPayouts

\* C5: the payout lines are the received payouts in reverse order, one line
\* per payout: the i-th line is the line of the (n+1-i)-th received payout.
C5_PayoutsRenderedInReverse ==
    Displayed =>
        /\ Len(payout_lines) = Len(Received)
        /\ \A i \in 1..Len(Received) :
              payout_lines[i] = PayoutLine(Received[Len(Received) + 1 - i])

C5_Witness ==
    /\ Displayed
    /\ Len(Received) >= 2
    /\ Received[1] # Received[Len(Received)]
    /\ payout_lines[1] = PayoutLine(Received[Len(Received)])

ChosenTz == IF tz_choice = NoChoice THEN "UTC" ELSE tz_choice

\* C7 as stated: every payout time is formatted in the timezone chosen in the
\* selector, and in UTC when nothing was chosen.
C7_PayoutTimesInChosenTimezone ==
    Displayed =>
        \A i \in 1..Len(payout_lines) :
            payout_lines[i].formatted_time =
                ConvertDtToUserTz(
                    UtcFromTimestamp(Received[Len(Received) + 1 - i].timestamp),
                    ChosenTz)

\* C8 as stated: node_data is never changed locally, it stays equal to what
\* fetch_node_data returned.
C8_NodeDataNeverMutated == node_data = fetched

\* the body has a member data that has a member node
HasDataNode(body) ==
    /\ body.t = "obj"
    /\ "data" \in DOMAIN body.f
    /\ body.f.data.t = "obj"
    /\ "node" \in DOMAIN body.f.data.f

PassesMembershipTest(body) ==
    /\ body.t = "obj"
    /\ "data" \in DOMAIN body.f
    /\ \/ body.f.data.t = "obj" /\ "node" \in DOMAIN body.f.data.f
       \/ body.f.data.t = "list" /\
              \E i \in 1..Len(body.f.data.q) : body.f.data.q[i] = JStr("node")

NoneOutstanding ==
    /\ pc # "fetch_node"
    /\ \A i \in Futures : future[i] \in {"unsubmitted", "finished"}

\* C10: every run of main ends, and when it has ended no worker and no
\* request of the run is still outstanding.
C10_RunEndsWithNothingOutstanding ==
    /\ <>Finished
    /\ [](Finished => NoneOutstanding)

C10_Witness ==
    /\ pc = "done"
    /\ MetricsReturned
    /\ \A i \in Futures : future[i] = "finished"

=============================================================================
